---- MODULE Spec2Model ----
(***************************************************************************)
(* State-machine model of bibdl (src/bibdl/bibdl.py): the batch loop       *)
(* BibDL.some, the per-entry handler BibDL.single, the resolution          *)
(* BibDL.pdf_url with its cluster fallback, the block reaction             *)
(* BibDL.on_blocked, the querier BibDLQuerier.send_query and the Status    *)
(* consistency tracker.                                                    *)
(*                                                                         *)
(* Times are counted in units of 1/8 second, so that TIMEOUT = 5.0 s is 40 *)
(* and MIN_TIMEOUT = 0.25 s is 2.  Texts (titles, years, URLs) are         *)
(* sequences of symbols; Python's None is the empty sequence.              *)
(***************************************************************************)
EXTENDS Integers, Sequences, FiniteSets, TLC

\* ------------------------------------------------------------- bounds
\* Largest number of keys handed to some().
MaxBatch == 3
\* Largest number of results the provider returns for a cluster query.
MaxCluster == 2
\* The mean delay is doubled at most this many times in a row.
MaxDoublings == 2

\* ---------------------------------------------------------- constants
TIMEOUT == 40
MIN_TIMEOUT == 2
\* Standard deviation handed to normalvariate (0.25 s).
SIGMA == 2

None == <<>>

\* ------------------------------------------------------------ URLs
\* A URL is a sequence of tokens.  A token of SlashTokens contains a '/',
\* every other token is a run of characters without '/'.
SchemeTokens == {"http://", "https://"}
SlashTokens == SchemeTokens \cup {"/", "scholar.google.com/"}

GoodPdf == <<"http://", "example.org", "/", "paper.pdf">>
SpringerPdf == <<"https://", "link.springer.com", "/", "paper.pdf">>
ProxiedGoodPdf == <<"http://", "scholar.google.com/", "http://", "example.org", "/", "paper.pdf">>
ProxiedSpringerPdf == <<"http://", "scholar.google.com/", "https://", "link.springer.com", "/", "paper.pdf">>
AcademiaPdf == <<"http://", "www.academia.edu", "/", "paper.pdf">>
OtherPdf == <<"http://", "example.org", "/", "other.pdf">>
PlainUrl == <<"http://", "example.org", "/", "abs">>
BookUrl == <<"http://", "books.google.com", "/", "books">>

\* URL_BLACKLIST: the tokens in which the pattern's word occurs.
URL_BLACKLIST == {"link.springer.com", "www.academia.edu", "www.semanticscholar.org"}

\* re 'https?://[^/]*WORD' matched with its first character at position i.
MatchesHostAt(url, i, words) ==
    /\ url[i] \in SchemeTokens
    /\ \E j \in (i + 1)..Len(url) :
          /\ url[j] \in words
          /\ \A k \in (i + 1)..(j - 1) : url[k] \notin SlashTokens

is_blacklisted(url) ==
    \E i \in 1..Len(url) : MatchesHostAt(url, i, URL_BLACKLIST)

\* A check that looks at the host only.
is_book_host_only(url) ==
    url # None /\ Len(url) >= 1 /\ MatchesHostAt(url, 1, {"books.google.com"})

\* A check that knows the null URL only.
is_book_null_only(url) == url = None

is_book(url) ==
    url = None \/ (Len(url) >= 1 /\ MatchesHostAt(url, 1, {"books.google.com"}))

\* The leftmost position of 'scholar.google.com/' that is followed by 'http'.
StripAt(url) ==
    {i \in 1..(Len(url) - 1) :
        url[i] = "scholar.google.com/" /\ url[i + 1] \in SchemeTokens}

Min(S) == CHOOSE x \in S : \A y \in S : x <= y

strip_url(url) ==
    IF url = None THEN None
    ELSE IF StripAt(url) # {} THEN SubSeq(url, Min(StripAt(url)) + 1, Len(url))
    ELSE url

\* ------------------------------------------------------------ texts
\* Characters of the titles and years the model draws from.
TitleFooBar == <<" ", "F", "o", " ", "B", "!">>
TitleFooBarPlain == <<"f", "o", "b">>
TitleOther == <<"o", "b">>
TitleUnderscore == <<"F", "o", "_", "B">>
Year1996 == <<"1", "9">>
Year2001 == <<"2", "0">>

\* unicode.lower on one symbol.
Lower(c) ==
    CASE c = "F" -> "f"
      [] c = "B" -> "b"
      [] OTHER -> c

\* The characters of one symbol that '[\d\w]+' keeps: \w matches the
\* underscore as well as the letters and the digits.
WordPart(c) ==
    CASE c \in {" ", "!", "/"} -> <<>>
      [] c = "http://" -> <<"http">>
      [] c = "https://" -> <<"https">>
      [] c = "scholar.google.com/" -> <<"scholar", "google", "com">>
      [] OTHER -> <<c>>

LowerAll(t) == [i \in 1..Len(t) |-> Lower(t[i])]

\* unicode.strip: drop leading and trailing whitespace.
Strip(t) ==
    LET inked == {i \in 1..Len(t) : t[i] # " "}
    IN  IF inked = {} THEN <<>>
        ELSE SubSeq(t, Min(inked), CHOOSE i \in inked : \A j \in inked : j <= i)

RECURSIVE Collapse(_)
\* u''.join(strcollapse.findall(t))
Collapse(t) ==
    IF t = <<>> THEN <<>> ELSE WordPart(Head(t)) \o Collapse(Tail(t))

_similar(fst, snd) ==
    Collapse(Strip(LowerAll(fst))) = Collapse(Strip(LowerAll(snd)))

\* ----------------------------------------------------------- Status
\* A Status object: its verbose flag, its two dictionaries and the lines
\* written by _writeln since the last title.
Line(kind, key, text, warn) ==
    [kind |-> kind, key |-> key, text |-> text, warn |-> warn]

Put(m, key, text) ==
    [k \in DOMAIN m \cup {key} |-> IF k = key THEN text ELSE m[k]]

Status__init__(verbose) ==
    [verbose |-> verbose, msg_query |-> <<>>, msg_result |-> <<>>, out |-> <<>>]

_writeln(st, line) == [st EXCEPT !.out = Append(@, line)]

\* A title that forgets to clear the results.
StatusTitleKeepsResults(st) ==
    _writeln([st EXCEPT !.msg_query = <<>>, !.out = <<>>],
             Line("TITLE", "", None, ""))

StatusTitle(st) ==
    _writeln([st EXCEPT !.msg_query = <<>>, !.msg_result = <<>>, !.out = <<>>],
             Line("TITLE", "", None, ""))

StatusFinished(st) ==
    IF st.verbose THEN _writeln(st, Line("", "", None, "")) ELSE st

StatusError(st, text) ==
    IF text = None THEN st ELSE _writeln(st, Line("ERROR", "", text, ""))

StatusWarning(st, text) ==
    IF text = None \/ ~st.verbose THEN st
    ELSE _writeln(st, Line("WARNING", "", text, ""))

_status(st, kind, key, text, warn) ==
    IF text = None \/ ~st.verbose THEN st
    ELSE _writeln(st, Line(kind, key, text, warn))

StatusQuery(st, key, text) ==
    IF text = None \/ ~st.verbose THEN st
    ELSE _status([st EXCEPT !.msg_query = Put(@, key, text)], "QUERY", key, text, "")

StatusResult(st, key, text) ==
    IF text = None \/ ~st.verbose THEN st
    ELSE IF key \in DOMAIN st.msg_query
         THEN IF ~_similar(st.msg_query[key], text)
              THEN _status(st, "RESULT", key, text, "differs from query")
              ELSE st
    ELSE IF key \in DOMAIN st.msg_result
         THEN IF ~_similar(st.msg_result[key], text)
              THEN _status(st, "RESULT", key, text, "differs from former result")
              ELSE st
    ELSE _status([st EXCEPT !.msg_result = Put(@, key, text)], "RESULT", key, text, "")

\* ------------------------------------------------------------ inputs
\* Titles and years of the bibliography entries (BibDL.title, BibDL.year).
BibTitles == {TitleFooBar}
BibYears == {None, Year1996}
MainAuthors == <<"A", "u">>

\* The destination as single() finds it.
FsStates == {"nodir", "free", "exists", "readonly"}

\* The records the provider returns for the primary query.
Article(title, year, url, url_pdf, cluster_id) ==
    [title |-> title, year |-> year, url |-> url, url_pdf |-> url_pdf,
     cluster_id |-> cluster_id]

PrimaryArticles ==
    {Article(t, y, u, p, c) :
        t \in {TitleFooBarPlain, TitleOther}, y \in {Year2001},
        u \in {PlainUrl, BookUrl},
        p \in {None, GoodPdf, ProxiedSpringerPdf},
        c \in {None, <<"cluster">>}}

\* The records the provider returns for a cluster query.
ClusterArticles ==
    {Article(t, Year1996, PlainUrl, p, <<"cluster">>) :
        t \in {TitleFooBarPlain},
        p \in {None, ProxiedGoodPdf, OtherPdf, AcademiaPdf}}

RECURSIVE SeqsUpTo(_, _)
SeqsUpTo(S, n) ==
    IF n = 0 THEN {<<>>}
    ELSE LET shorter == SeqsUpTo(S, n - 1)
         IN  shorter \cup {Append(q, x) : q \in shorter, x \in S}

PrimaryResponses == SeqsUpTo(PrimaryArticles, 1)
ClusterResponses == SeqsUpTo(ClusterArticles, MaxCluster)

\* The provider of the batch runs: what it returns differs only in what
\* decides the path through pdf_url().
BatchPrimaryArticles ==
    {Article(TitleOther, Year2001, PlainUrl, p, c) :
        p \in {GoodPdf, ProxiedSpringerPdf}, c \in {None, <<"cluster">>}}

BatchClusterArticles ==
    {Article(TitleOther, Year1996, PlainUrl, p, <<"cluster">>) :
        p \in {OtherPdf, AcademiaPdf}}

BatchPrimaryResponses == SeqsUpTo(BatchPrimaryArticles, 1)
BatchClusterResponses == SeqsUpTo(BatchClusterArticles, MaxCluster)

\* The values normalvariate(mean, 0.25) is drawn from.
Samples(mean) ==
    {0, MIN_TIMEOUT, MIN_TIMEOUT + 1, mean - SIGMA, mean, mean + SIGMA}

RECURSIVE Pow2(_)
Pow2(n) == IF n = 0 THEN 1 ELSE 2 * Pow2(n - 1)

\* ------------------------------------------------------------- state
VARIABLES
    overwrite,       \* BibDL.overwrite
    blocked_cmd,     \* TRUE iff BibDL.blocked_cmd is not None
    keys,            \* number of keys handed to some()
    timeout,         \* BibDL.timeout, the mean delay
    queries_sent,    \* BibDLQuerier.queries_sent
    queries_change,  \* BibDLQuerier.queries_change
    USER_AGENT,      \* ScholarConf.USER_AGENT: how often it has been regenerated
    status,          \* BibDL.status
    pc,              \* position of the single thread of control
    idx,             \* some(): index of the key being processed
    has_queried,     \* single(): has_queried
    dowait,          \* some(): dowait
    delay,           \* some(): the local timeout being sampled
    articles,        \* BibDLQuerier.articles
    art,             \* pdf_url(): art
    pdf_url,         \* pdf_url(): pdf_url
    cidx,            \* pdf_url(): position of the walk through the cluster
    url,             \* single(): url, the value pdf_url returned
    \* history, read by the properties only
    called,          \* a provider call was issued for the current entry
    slept,           \* time.sleep ran after the last finished entry
    sinceCall,       \* time slept since the last provider call (-1: no call yet;
                     \* saturates above MIN_TIMEOUT)
    attempts,        \* how often single() was entered for each key
    outcome,         \* how the last entry ended (or is ending)
    examined,        \* cluster candidates the walk has looked at
    recorded,        \* the cluster candidate handed to status.result (0: none)
    before,          \* timeout, USER_AGENT, queries_sent when pdf_url was entered
    last,            \* the last provider call of the entry: how it ended, the
                     \* timeout when it was sent, USER_AGENT when it returned
    empties,         \* primary queries answered with no result since the last
                     \* one answered with results
    book_warned,     \* pdf_url() called status.warning('Might be a book')
    hook,            \* the blocked_cmd runs of the entry: how many, the exit
                     \* status, and timeout and USER_AGENT when it ran
    probe            \* the last call made on a Status or filter under test

config == <<overwrite, blocked_cmd, keys>>
throttle == <<timeout, queries_sent, queries_change, USER_AGENT>>
locals == <<has_queried, dowait, delay, articles, art, pdf_url, cidx, url>>
history == <<called, slept, sinceCall, attempts, outcome, examined, recorded,
             before, last, empties, probe>>
signals == <<book_warned, hook>>
vars == <<config, throttle, status, pc, idx, locals, history, signals>>

NoArticle == Article(None, None, None, None, None)
NotEntered == <<TIMEOUT, 0, 0>>
NoCall == <<"none", TIMEOUT, 0>>
NoHook == <<0, 0, 0, 0>>
NoProbe == [op |-> "none"]

Init ==
    /\ overwrite \in BOOLEAN
    /\ blocked_cmd \in BOOLEAN
    /\ keys \in 1..MaxBatch
    /\ timeout = TIMEOUT
    /\ queries_sent = 0
    /\ queries_change \in 5..15
    /\ USER_AGENT = 0
    /\ status \in {Status__init__(v) : v \in BOOLEAN}
    /\ pc = "some"
    /\ idx = 1
    /\ has_queried = FALSE
    /\ dowait = FALSE
    /\ delay = 0
    /\ articles = <<>>
    /\ art = NoArticle
    /\ pdf_url = None
    /\ cidx = 0
    /\ url = None
    /\ called = FALSE
    /\ slept = FALSE
    /\ sinceCall = -1
    /\ attempts = [i \in 1..keys |-> 0]
    /\ outcome = "none"
    /\ examined = 0
    /\ recorded = 0
    /\ before = NotEntered
    /\ last = NoCall
    /\ empties = 0
    /\ book_warned = FALSE
    /\ hook = NoHook
    /\ probe = NoProbe

\* ----------------------------------------------------------- helpers
\* BibDLQuerier.send_query up to the call of ScholarQuerier.send_query.
\* A send_query that tests the count before it increments it.
send_query_checks_before_count ==
    /\ queries_sent' = queries_sent + 1
    /\ IF queries_sent % queries_change = 0
       THEN /\ queries_change' \in 3..13
            /\ USER_AGENT' = USER_AGENT + 1
       ELSE UNCHANGED <<queries_change, USER_AGENT>>
    /\ called' = TRUE
    /\ sinceCall' = 0

\* A send_query that redraws the threshold with randint(3, 16).
send_query_redraws_wider ==
    /\ queries_sent' = queries_sent + 1
    /\ IF (queries_sent + 1) % queries_change = 0
       THEN /\ queries_change' \in 3..16
            /\ USER_AGENT' = USER_AGENT + 1
       ELSE UNCHANGED <<queries_change, USER_AGENT>>
    /\ called' = TRUE
    /\ sinceCall' = 0

\* BibDLQuerier.send_query, up to the call of ScholarQuerier.send_query.
send_query ==
    /\ queries_sent' = queries_sent + 1
    /\ IF (queries_sent + 1) % queries_change = 0
       THEN /\ queries_change' \in 3..13
            /\ USER_AGENT' = USER_AGENT + 1
       ELSE UNCHANGED <<queries_change, USER_AGENT>>
    /\ called' = TRUE
    /\ sinceCall' = 0

\* An except clause that names IOError instead of Exception.
CatchesIOError(kind) == kind = "download"

\* 'except Exception, e' of single(): the kinds of exception it catches.
Catches(kind) == kind \in {"local", "provider", "download"}

\* A single() that reports a query after every exception.
ExceptWaits(kind, text, hq) ==
    /\ status' = StatusFinished(StatusError(status, text))
    /\ pc' = IF Catches(kind) THEN "returned" ELSE "done"
    /\ dowait' = TRUE

\* single() from the except clause on: report, finish the block, return.
Except(kind, text, hq) ==
    /\ status' = StatusFinished(StatusError(status, text))
    /\ pc' = IF Catches(kind) THEN "returned" ELSE "done"
    /\ dowait' = hq

\* The checks of the destination at the head of single()'s try block.
LocalError(fs, ow) ==
    CASE fs = "nodir" -> <<"Cannot write to directory">>
      [] fs \in {"exists", "readonly"} /\ ~ow -> <<"File exists already, not overwriting">>
      [] fs = "readonly" /\ ow -> <<"Cannot overwrite file.">>
      [] OTHER -> None

\* A loop that does not wait after its last key.
some_dowait_between(ret, i, n) == ret /\ i < n

\* 'if dowait:' of some(), for the key at position i of n.
some_dowait(ret, i, n) == ret

\* ----------------------------------------------------------- actions
\* some(): 'for key in keys' takes the next key and enters single(), which
\* starts the block (status.title) and sets has_queried = False.
SomeNext ==
    /\ pc = "some"
    /\ idx <= keys
    /\ status' = StatusTitle(status)
    /\ has_queried' = FALSE
    /\ attempts' = [attempts EXCEPT ![idx] = @ + 1]
    /\ called' = FALSE
    /\ last' = NoCall
    /\ slept' = FALSE
    /\ book_warned' = FALSE
    /\ hook' = NoHook
    /\ pc' = "single_try"
    /\ UNCHANGED <<config, throttle, idx, dowait, delay, articles, art, pdf_url,
                   cidx, url, sinceCall, outcome, examined, recorded, before,
                   probe, empties>>

\* some(): the keys are exhausted.
SomeReturn ==
    /\ pc = "some"
    /\ idx > keys
    /\ pc' = "done"
    /\ UNCHANGED <<config, throttle, status, idx, locals, history,
                   signals>>

\* single(): the destination checks and the three status.query calls.
SingleTryOf(years) ==
    /\ pc = "single_try"
    /\ \E fs \in FsStates, title \in BibTitles, year \in years :
         LET err == LocalError(fs, overwrite)
             st0 == IF fs = "exists" THEN StatusWarning(status, <<"Overwriting file">>)
                    ELSE status
         IN  IF err # None
             THEN /\ Except("local", err, has_queried)
                  /\ outcome' = "local_error"
                  /\ UNCHANGED before
             ELSE /\ status' = StatusQuery(StatusQuery(StatusQuery(st0,
                                    "Title", title), "Authors", MainAuthors), "Year", year)
                  /\ pc' = "pdf_url"
                  /\ outcome' = "running"
                  /\ before' = <<timeout, USER_AGENT, queries_sent>>
                  /\ UNCHANGED dowait
    /\ UNCHANGED <<config, throttle, idx, has_queried, delay, articles, art, pdf_url,
                   cidx, url, called, slept, sinceCall, attempts, examined, recorded,
                   last,
                   probe, empties, signals>>

\* pdf_url(): the initial query is sent; the provider answers or fails.
SendPrimaryOf(responses) ==
    /\ pc = "pdf_url"
    /\ send_query
    /\ \/ /\ Except("provider", <<"provider error">>, has_queried)
          /\ outcome' = "provider_error"
          /\ last' = <<"error", timeout, USER_AGENT'>>
          /\ UNCHANGED <<articles, empties>>
       \/ /\ \E resp \in responses :
                /\ Len(resp) = 0 => timeout < TIMEOUT * Pow2(MaxDoublings)
                /\ articles' = resp
          /\ empties' = IF Len(articles') = 0 THEN empties + 1 ELSE 0
          /\ last' = <<IF Len(articles') = 0 THEN "empty" ELSE "found", timeout,
                       USER_AGENT'>>
          /\ pc' = "primary_returned"
          /\ UNCHANGED <<status, dowait, outcome>>
    /\ UNCHANGED <<config, timeout, idx, has_queried, delay, art, pdf_url, cidx, url,
                   slept, attempts, examined, recorded, before,
                   probe, signals>>

\* on_blocked without the exponential backoff.
on_blocked_no_backoff(st, code) ==
    /\ USER_AGENT' = USER_AGENT + 1
    /\ timeout' = timeout
    /\ hook' = IF blocked_cmd THEN <<hook[1] + 1, code, timeout', USER_AGENT'>> ELSE hook
    /\ status' = IF blocked_cmd /\ code # 0 THEN StatusError(st, <<"hook output">>)
                 ELSE st

\* on_blocked with a linear backoff.
on_blocked_linear_backoff(st, code) ==
    /\ USER_AGENT' = USER_AGENT + 1
    /\ timeout' = timeout + TIMEOUT
    /\ hook' = IF blocked_cmd THEN <<hook[1] + 1, code, timeout', USER_AGENT'>> ELSE hook
    /\ status' = IF blocked_cmd /\ code # 0 THEN StatusError(st, <<"hook output">>)
                 ELSE st

\* on_blocked without the new user agent.
on_blocked_keeps_identity(st, code) ==
    /\ USER_AGENT' = USER_AGENT
    /\ timeout' = timeout * 2
    /\ hook' = IF blocked_cmd THEN <<hook[1] + 1, code, timeout', USER_AGENT'>> ELSE hook
    /\ status' = IF blocked_cmd /\ code # 0 THEN StatusError(st, <<"hook output">>)
                 ELSE st

\* on_blocked running the hook before it escalates.
on_blocked_hook_first(st, code) ==
    /\ USER_AGENT' = USER_AGENT + 1
    /\ timeout' = timeout * 2
    /\ hook' = IF blocked_cmd THEN <<hook[1] + 1, code, timeout, USER_AGENT>> ELSE hook
    /\ status' = IF blocked_cmd /\ code # 0 THEN StatusError(st, <<"hook output">>)
                 ELSE st

\* BibDL.on_blocked, with the exit status of the hook when one is configured.
on_blocked(st, code) ==
    /\ USER_AGENT' = USER_AGENT + 1
    /\ timeout' = timeout * 2
    /\ hook' = IF blocked_cmd THEN <<hook[1] + 1, code, timeout', USER_AGENT'>> ELSE hook
    /\ status' = IF blocked_cmd /\ code # 0 THEN StatusError(st, <<"hook output">>)
                 ELSE st

\* pdf_url(): no search results; on_blocked() and return None.
PrimaryEmpty ==
    /\ pc = "primary_returned"
    /\ Len(articles) = 0
    /\ \E code \in {0, 1} :
          on_blocked(StatusWarning(status, <<"No search results. Blocked maybe?">>), code)
    /\ url' = None
    /\ outcome' = "no_results"
    /\ pc' = "pdf_url_ret"
    /\ UNCHANGED <<config, queries_sent, queries_change, idx, has_queried, dowait,
                   delay, articles, art, pdf_url, cidx, called, slept, sinceCall,
                   attempts, examined, recorded, before, last,
                   probe, empties, book_warned>>

\* A pdf_url() that asks for the cluster of every first article.
PrimaryFoundAlwaysCluster ==
    /\ pc = "primary_returned"
    /\ Len(articles) > 0
    /\ timeout' = TIMEOUT
    /\ art' = articles[1]
    /\ pdf_url' = strip_url(articles[1].url_pdf)
    /\ LET a == articles[1]
           p == strip_url(a.url_pdf)
           st3 == StatusResult(StatusResult(StatusResult(status,
                      "Title", a.title), "Year", a.year), "PDF", p)
       IN  /\ status' = IF p = None \/ is_blacklisted(p)
                        THEN StatusResult(st3, "URL", a.url) ELSE st3
           /\ pc' = "cluster"
    /\ UNCHANGED <<config, queries_sent, queries_change, USER_AGENT, idx, has_queried,
                   dowait, delay, articles, cidx, url, history,
                   signals>>

\* pdf_url(): a first article; reset the timeout, report it, check its PDF url.
PrimaryFound ==
    /\ pc = "primary_returned"
    /\ Len(articles) > 0
    /\ timeout' = TIMEOUT
    /\ art' = articles[1]
    /\ pdf_url' = strip_url(articles[1].url_pdf)
    /\ LET a == articles[1]
           p == strip_url(a.url_pdf)
           st3 == StatusResult(StatusResult(StatusResult(status,
                      "Title", a.title), "Year", a.year), "PDF", p)
       IN  IF p = None \/ is_blacklisted(p)
           THEN /\ status' = StatusResult(st3, "URL", a.url)
                /\ pc' = IF a.cluster_id # None THEN "cluster" ELSE "book"
           ELSE /\ status' = st3
                /\ pc' = "book"
    /\ UNCHANGED <<config, queries_sent, queries_change, USER_AGENT, idx, has_queried,
                   dowait, delay, articles, cidx, url, history,
                   signals>>

\* pdf_url(): the cluster query is sent; the provider answers or fails.  An
\* exception unwinds pdf_url(), whose locals are gone.
SendClusterOf(responses) ==
    /\ pc = "cluster"
    /\ send_query
    /\ \/ /\ Except("provider", <<"provider error">>, has_queried)
          /\ outcome' = "provider_error"
          /\ last' = <<"error", timeout, USER_AGENT'>>
          /\ art' = NoArticle
          /\ pdf_url' = None
          /\ articles' = <<>>
          /\ UNCHANGED cidx
       \/ /\ articles' \in responses
          /\ last' = <<IF Len(articles') = 0 THEN "empty" ELSE "found", timeout,
                       USER_AGENT'>>
          /\ cidx' = 1
          /\ pc' = "walk"
          /\ UNCHANGED <<status, dowait, outcome, art, pdf_url>>
    /\ UNCHANGED <<config, timeout, idx, has_queried, delay, url,
                   slept, attempts, examined, recorded, before,
                   probe, empties, signals>>

\* A walk that forgets the blacklist.
WalkAdoptsAnyUrl(curl) == curl # None

\* 'if curl is not None and not is_blacklisted(curl)' of the walk.
WalkAdopts(curl) == curl # None /\ ~is_blacklisted(curl)

\* pdf_url(): one iteration of 'for cart in self.querier.articles'.
Walk ==
    /\ pc = "walk"
    /\ cidx <= Len(articles)
    /\ examined' = cidx
    /\ LET cart == articles[cidx]
           curl == strip_url(cart.url_pdf)
       IN  IF WalkAdopts(curl)
           THEN /\ pdf_url' = curl
                /\ recorded' = cidx
                /\ status' = StatusResult(StatusResult(StatusResult(status,
                                 "Title", cart.title), "Year", cart.year), "PDF", curl)
                /\ pc' = "book"
                /\ UNCHANGED cidx
           ELSE /\ cidx' = cidx + 1
                /\ UNCHANGED <<pdf_url, status, pc, recorded>>
    /\ UNCHANGED <<config, throttle, idx, has_queried, dowait, delay, articles, art,
                   url, called, slept, sinceCall, attempts, outcome, before, last,
                   probe, empties, signals>>

\* pdf_url(): the walk ran off the end of the cluster.
WalkEnd ==
    /\ pc = "walk"
    /\ cidx > Len(articles)
    /\ pc' = "book"
    /\ UNCHANGED <<config, throttle, status, idx, locals, history,
                   signals>>

\* pdf_url(): the book warning and 'return pdf_url'.  The locals of pdf_url()
\* are gone.
Book ==
    /\ pc = "book"
    /\ status' = IF is_book(pdf_url) \/ is_book(art.url)
                 THEN StatusWarning(status, <<"Might be a book">>)
                 ELSE status
    /\ book_warned' = (is_book(pdf_url) \/ is_book(art.url))
    /\ url' = pdf_url
    /\ pc' = "pdf_url_ret"
    /\ art' = NoArticle
    /\ pdf_url' = None
    /\ cidx' = 0
    /\ UNCHANGED <<config, throttle, idx, has_queried, dowait, delay, articles,
                   history,
                   hook>>

\* single(): pdf_url() has returned; has_queried = True; no url is an error.
\* The articles are not read again before the next query replaces them.
SingleAfter ==
    /\ pc = "pdf_url_ret"
    /\ has_queried' = TRUE
    /\ IF url # None
       THEN /\ pc' = "urlretrieve"
            /\ UNCHANGED <<status, dowait, outcome>>
       ELSE /\ status' = StatusFinished(StatusError(status, <<"No PDF found">>))
            /\ pc' = "returned"
            /\ dowait' = TRUE
            /\ outcome' = IF outcome = "no_results" THEN outcome ELSE "no_pdf"
    /\ examined' = 0
    /\ recorded' = 0
    /\ before' = NotEntered
    /\ last' = NoCall
    /\ articles' = <<>>
    /\ UNCHANGED <<config, throttle, idx, delay, art, pdf_url, cidx, url,
                   called, slept, sinceCall, attempts,
                   probe, empties, signals>>

\* single(): urlretrieve(url, dst) succeeds or raises.
Download ==
    /\ pc = "urlretrieve"
    /\ \/ /\ status' = StatusFinished(StatusResult(status, "Copied to", <<"dst">>))
          /\ pc' = "returned"
          /\ dowait' = has_queried
          /\ outcome' = "ok"
       \/ /\ Except("download", <<"download error">>, has_queried)
          /\ outcome' = "download_error"
    /\ url' = None
    /\ UNCHANGED <<config, throttle, idx, has_queried, delay, articles, art, pdf_url,
                   cidx, called, slept, sinceCall, attempts, examined, recorded,
                   before, last,
                   probe, empties, signals>>

\* some(): 'if dowait:' is false, on to the next key.
SomeSkip ==
    /\ pc = "returned"
    /\ ~some_dowait(dowait, idx, keys)
    /\ slept' = FALSE
    /\ idx' = idx + 1
    /\ pc' = "some"
    /\ UNCHANGED <<config, throttle, status, locals, called, sinceCall, attempts,
                   outcome, examined, recorded, before, last,
                   probe, empties, signals>>

\* some(): 'if dowait:' is true, 'timeout = 0.0'.
SomeWait ==
    /\ pc = "returned"
    /\ some_dowait(dowait, idx, keys)
    /\ delay' = 0
    /\ pc' = "sample"
    /\ UNCHANGED <<config, throttle, status, idx, has_queried, dowait, articles, art,
                   pdf_url, cidx, url, history,
                   signals>>

\* some(): one iteration of 'while timeout <= MIN_TIMEOUT'.
Sample ==
    /\ pc = "sample"
    /\ delay <= MIN_TIMEOUT
    /\ delay' \in Samples(timeout)
    /\ UNCHANGED <<config, throttle, status, pc, idx, has_queried, dowait, articles,
                   art, pdf_url, cidx, url, history,
                   signals>>

\* A loop that accepts a delay equal to the floor ('while timeout <
\* MIN_TIMEOUT').
SleepAtFloor ==
    /\ pc = "sample"
    /\ delay >= MIN_TIMEOUT
    /\ slept' = TRUE
    /\ sinceCall' = IF sinceCall < 0 THEN sinceCall
                    ELSE IF sinceCall + delay > MIN_TIMEOUT THEN MIN_TIMEOUT + 1
                    ELSE sinceCall + delay
    /\ idx' = idx + 1
    /\ delay' = 0
    /\ pc' = "some"
    /\ UNCHANGED <<config, throttle, status, has_queried, dowait, articles, art,
                   pdf_url, cidx, url, called, attempts, outcome, examined, recorded,
                   before, last,
                   probe, empties, signals>>

\* some(): time.sleep(timeout), on to the next key.
Sleep ==
    /\ pc = "sample"
    /\ delay > MIN_TIMEOUT
    /\ slept' = TRUE
    /\ sinceCall' = IF sinceCall < 0 THEN sinceCall
                    ELSE IF sinceCall + delay > MIN_TIMEOUT THEN MIN_TIMEOUT + 1
                    ELSE sinceCall + delay
    /\ idx' = idx + 1
    /\ delay' = 0
    /\ pc' = "some"
    /\ UNCHANGED <<config, throttle, status, has_queried, dowait, articles, art,
                   pdf_url, cidx, url, called, attempts, outcome, examined, recorded,
                   before, last,
                   probe, empties, signals>>

\* The actions with the inputs of the batch runs.
SingleTry == SingleTryOf({Year1996})
SendPrimary == SendPrimaryOf(BatchPrimaryResponses)
SendCluster == SendClusterOf(BatchClusterResponses)

\* The actions with the inputs of the resolution of one entry.
SingleTryRich == SingleTryOf(BibYears)
SendPrimaryRich == SendPrimaryOf(PrimaryResponses)
SendClusterRich == SendClusterOf(ClusterResponses)

\* What some() and its callees do apart from reading their inputs.
Steps ==
    \/ SomeNext
    \/ SomeReturn
    \/ PrimaryEmpty
    \/ PrimaryFound
    \/ Walk
    \/ WalkEnd
    \/ Book
    \/ SingleAfter
    \/ Download
    \/ SomeSkip
    \/ SomeWait
    \/ Sample
    \/ Sleep

Next ==
    \/ Steps
    \/ SingleTry
    \/ SendPrimary
    \/ SendCluster

\* A batch of up to MaxBatch keys.
Spec == Init /\ [][Next]_vars

InitResolve == Init /\ keys = 1

NextResolve ==
    \/ Steps
    \/ SingleTryRich
    \/ SendPrimaryRich
    \/ SendClusterRich

\* One key, with every answer of the provider the model knows.
SpecResolve == InitResolve /\ [][NextResolve]_vars

\* ------------------------------------------------- a Status by itself
\* The calls made on one Status object, in any order: title(), query() and
\* result() with the keys and texts below.  No more than MaxLines lines are
\* written between two titles.
MaxLines == 3
StatusKeys == {"Title", "PDF"}
StatusTexts == {TitleFooBar, TitleFooBarPlain, TitleOther, TitleUnderscore}

InitStatus ==
    /\ overwrite = FALSE
    /\ blocked_cmd = FALSE
    /\ keys = 1
    /\ timeout = TIMEOUT
    /\ queries_sent = 0
    /\ queries_change = 5
    /\ USER_AGENT = 0
    /\ status \in {Status__init__(v) : v \in BOOLEAN}
    /\ pc = "status"
    /\ idx = 1
    /\ has_queried = FALSE
    /\ dowait = FALSE
    /\ delay = 0
    /\ articles = <<>>
    /\ art = NoArticle
    /\ pdf_url = None
    /\ cidx = 0
    /\ url = None
    /\ called = FALSE
    /\ slept = FALSE
    /\ sinceCall = 0
    /\ attempts = [i \in 1..keys |-> 0]
    /\ outcome = "none"
    /\ examined = 0
    /\ recorded = 0
    /\ before = NotEntered
    /\ last = NoCall
    /\ empties = 0
    /\ book_warned = FALSE
    /\ hook = NoHook
    /\ probe = NoProbe

StatusFrame ==
    UNCHANGED <<config, throttle, pc, idx, locals, called, slept, sinceCall,
                attempts, outcome, examined, recorded, before, last, empties,
                signals>>

StatusCallTitle ==
    /\ pc = "status"
    /\ status' = StatusTitle(status)
    /\ probe' = [op |-> "title", key |-> "", text |-> None, pre |-> status]
    /\ StatusFrame

StatusCallQuery ==
    /\ pc = "status"
    /\ Len(status.out) < MaxLines
    /\ \E key \in StatusKeys, text \in StatusTexts :
          /\ status' = StatusQuery(status, key, text)
          /\ probe' = [op |-> "query", key |-> key, text |-> text, pre |-> status]
    /\ StatusFrame

StatusCallResult ==
    /\ pc = "status"
    /\ Len(status.out) < MaxLines
    /\ \E key \in StatusKeys, text \in StatusTexts :
          /\ status' = StatusResult(status, key, text)
          /\ probe' = [op |-> "result", key |-> key, text |-> text, pre |-> status]
    /\ StatusFrame

NextStatus ==
    \/ StatusCallTitle
    \/ StatusCallQuery
    \/ StatusCallResult

SpecStatus == InitStatus /\ [][NextStatus]_vars

\* ------------------------------------------- the filters by themselves
\* is_blacklisted() and is_book() applied to one URL: a scheme, a host and
\* up to MaxPath further tokens.
MaxPath == 3
FilterHosts ==
    {"example.org", "books.google.com"} \cup URL_BLACKLIST
PathTokens == {"/", "paper.pdf", "http://", "link.springer.com"}
FilterUrls ==
    {<<s, h>> \o p :
        s \in SchemeTokens, h \in FilterHosts, p \in SeqsUpTo(PathTokens, MaxPath)}

InitFilter ==
    /\ overwrite = FALSE
    /\ blocked_cmd = FALSE
    /\ keys = 1
    /\ timeout = TIMEOUT
    /\ queries_sent = 0
    /\ queries_change = 5
    /\ USER_AGENT = 0
    /\ status = Status__init__(TRUE)
    /\ pc = "filter"
    /\ idx = 1
    /\ has_queried = FALSE
    /\ dowait = FALSE
    /\ delay = 0
    /\ articles = <<>>
    /\ art = NoArticle
    /\ pdf_url = None
    /\ cidx = 0
    /\ url \in FilterUrls
    /\ called = FALSE
    /\ slept = FALSE
    /\ sinceCall = 0
    /\ attempts = [i \in 1..keys |-> 0]
    /\ outcome = "none"
    /\ examined = 0
    /\ recorded = 0
    /\ before = NotEntered
    /\ last = NoCall
    /\ empties = 0
    /\ book_warned = FALSE
    /\ hook = NoHook
    /\ probe = NoProbe

Classify ==
    /\ pc = "filter"
    /\ probe' = [op |-> "classify", blacklisted |-> is_blacklisted(url),
                 book |-> is_book(url)]
    /\ pc' = "filtered"
    /\ UNCHANGED <<config, throttle, status, idx, locals, called, slept,
                   sinceCall, attempts, outcome, examined, recorded, before,
                   last, empties, signals>>

NextFilter == Classify

SpecFilter == InitFilter /\ [][NextFilter]_vars

\* ------------------------------------------------ a querier by itself
\* One BibDLQuerier and up to MaxQueries calls of send_query, one after the
\* other; probe.gap counts the calls since the last one that replaced
\* USER_AGENT.
MaxQueries == 40

InitQuerier ==
    /\ overwrite = FALSE
    /\ blocked_cmd = FALSE
    /\ keys = 1
    /\ timeout = TIMEOUT
    /\ queries_sent = 0
    /\ queries_change \in 5..15
    /\ USER_AGENT = 0
    /\ status = Status__init__(TRUE)
    /\ pc = "querier"
    /\ idx = 1
    /\ has_queried = FALSE
    /\ dowait = FALSE
    /\ delay = 0
    /\ articles = <<>>
    /\ art = NoArticle
    /\ pdf_url = None
    /\ cidx = 0
    /\ url = None
    /\ called = FALSE
    /\ slept = FALSE
    /\ sinceCall = 0
    /\ attempts = [i \in 1..keys |-> 0]
    /\ outcome = "none"
    /\ examined = 0
    /\ recorded = 0
    /\ before = NotEntered
    /\ last = NoCall
    /\ empties = 0
    /\ book_warned = FALSE
    /\ hook = NoHook
    /\ probe = [op |-> "send", gap |-> 0]

SendQuery ==
    /\ pc = "querier"
    /\ queries_sent < MaxQueries
    /\ send_query
    /\ probe' = [op |-> "send",
                 gap |-> IF USER_AGENT' # USER_AGENT THEN 0 ELSE probe.gap + 1]
    /\ UNCHANGED <<config, timeout, status, pc, idx, locals, slept, attempts,
                   outcome, examined, recorded, before, last, empties, signals>>

NextQuerier == SendQuery

SpecQuerier == InitQuerier /\ [][NextQuerier]_vars

\* ------------------------------------------------------------ claims
HasLine(kind) == \E i \in 1..Len(status.out) : status.out[i].kind = kind

\* The cluster candidates whose stripped document URL is usable.
UsableAt(arts) ==
    {k \in 1..Len(arts) :
        /\ strip_url(arts[k].url_pdf) # None
        /\ ~is_blacklisted(strip_url(arts[k].url_pdf))}

\* pdf_url() has returned after a cluster query that the provider answered.
ClusterAnswered ==
    pc = "pdf_url_ret" /\ queries_sent = before[3] + 2 /\ last[1] # "error"

\* C1: pdf_url never returns a blacklisted URL: what it returns is None or a
\* URL for which is_blacklisted is false.
C1_NeverBlacklisted ==
    pc = "pdf_url_ret" => (url = None \/ ~is_blacklisted(url))

\* C2: after a cluster query, pdf_url returns the document URL of the first
\* cluster result, in provider order, whose stripped URL is non-null and not
\* blacklisted; later candidates are neither examined nor recorded.
C2_FirstUsableWins ==
    (ClusterAnswered /\ UsableAt(articles) # {}) =>
        LET k == Min(UsableAt(articles))
        IN  /\ url = strip_url(articles[k].url_pdf)
            /\ examined = k
            /\ recorded = k

C2_Witness ==
    /\ ClusterAnswered
    /\ Len(articles) = 2
    /\ articles[1].url_pdf # None
    /\ is_blacklisted(strip_url(articles[1].url_pdf))
    /\ UsableAt(articles) = {2}
    /\ url = strip_url(articles[2].url_pdf)

\* C3: when the primary query returns no result, pdf_url returns None without
\* a cluster query, the mean delay is twice what it was before the call, and
\* on_blocked has rotated the user agent.
C3_ZeroResults ==
    (pc = "pdf_url_ret" /\ outcome = "no_results") =>
        /\ url = None
        /\ queries_sent = before[3] + 1
        /\ timeout = 2 * before[1]
        /\ USER_AGENT = last[3] + 1

C3_Witness ==
    /\ pc = "pdf_url_ret"
    /\ outcome = "no_results"
    /\ before[1] = 2 * TIMEOUT
    /\ timeout = 4 * TIMEOUT

\* C4: after a provider call that returned results the mean delay is the
\* baseline; after a provider call that returned none it is twice the mean
\* the call was sent with.
C4_MeanAfterCall ==
    pc = "pdf_url_ret" =>
        /\ last[1] = "found" => timeout = TIMEOUT
        /\ last[1] = "empty" => timeout = 2 * last[2]

\* C5: whenever a provider query, the cluster query included, returns no
\* result, the mean delay is doubled and a rotation of the user agent is forced.
C5_BlockDetectionOnEveryQuery ==
    (pc = "pdf_url_ret" /\ last[1] = "empty") =>
        /\ timeout = 2 * last[2]
        /\ USER_AGENT > last[3]

\* C6: between any two consecutive provider calls of a batch run the batch
\* has slept at least MIN_TIMEOUT.
C6_NoBackToBackCalls ==
    [][queries_sent' # queries_sent => (sinceCall = -1 \/ sinceCall >= MIN_TIMEOUT)]_vars

\* C7 as stated: after the final entry no delay is incurred before the batch
\* returns.
C7_NoDelayAfterFinalEntry ==
    pc = "done" => ~slept

\* C7, amended: the delay is incurred after every entry for which single()
\* reported a query, the final entry included.
C7_DelayAfterEveryQueriedEntry ==
    (pc \in {"some", "done"} /\ idx > 1) => (slept <=> dowait)

C7_Witness ==
    pc = "done" /\ keys > 1 /\ dowait /\ slept

\* C8: an entry is followed by a delay exactly if a provider call was issued
\* while it was processed.
C8_DelayIffProviderCalled ==
    (pc \in {"some", "done"} /\ idx > 1) => (slept <=> called)

\* C9: no failure of an entry aborts the batch: single() reports it, and some()
\* returns only when every key has been attempted exactly once.
C9_BatchContinues ==
    /\ \A i \in 1..keys : attempts[i] <= 1
    /\ pc = "done" => (idx = keys + 1 /\ \A i \in 1..keys : attempts[i] = 1)
    /\ (pc = "returned" /\ outcome # "ok") => HasLine("ERROR")

C9_Witness ==
    /\ pc = "done"
    /\ keys > 1
    /\ outcome = "provider_error"
    /\ \A i \in 1..keys : attempts[i] = 1

\* C10: when single() begins an entry, the recorded query values and the
\* recorded result values are empty.
C10_SessionCleared ==
    pc = "single_try" =>
        /\ DOMAIN status.msg_query = {}
        /\ DOMAIN status.msg_result = {}

C10_Witness ==
    /\ pc = "single_try"
    /\ idx > 1
    /\ outcome = "download_error"
    /\ DOMAIN status.msg_query = {}
    /\ DOMAIN status.msg_result = {}

\* What the claim calls the normal form of a text: trimmed, case-folded,
\* only its letters and digits kept.
LettersAndDigits(t) ==
    SelectSeq(Collapse(Strip(LowerAll(t))), LAMBDA c : c # "_")

DiffersFromQuery ==
    /\ Len(status.out) = Len(probe.pre.out) + 1
    /\ status.out[Len(status.out)].warn = "differs from query"

\* C11: a result for a field that has a query value writes the 'differs
\* from query' warning exactly when the two values differ once trimmed,
\* case-folded and reduced to their letters and digits, and never stores
\* anything for the field among the results.
C11_DiffersFromQuery ==
    (probe.op = "result" /\ probe.key \in DOMAIN probe.pre.msg_query) =>
        /\ DiffersFromQuery <=>
               LettersAndDigits(probe.pre.msg_query[probe.key])
                   # LettersAndDigits(probe.text)
        /\ status.msg_result = probe.pre.msg_result

\* The host portion of a URL: the tokens between the scheme and the first
\* token with a '/'.
HostTokens(u) ==
    {u[j] : j \in {k \in 2..Len(u) : \A m \in 2..k : u[m] \notin SlashTokens}}

\* C12: a URL is classified blacklisted exactly when its host matches a
\* blocked-host pattern, whatever its path and query string contain.
C12_HostOnly ==
    probe.op = "classify" =>
        (probe.blacklisted <=> HostTokens(url) \cap URL_BLACKLIST # {})

\* What the claim calls looking like a book: no URL at all, or a URL whose
\* host is of books.google.com.
LooksLikeBook(u) ==
    u = None \/ (u[1] \in SchemeTokens /\ "books.google.com" \in HostTokens(u))

\* C13: pdf_url() raises the 'Might be a book' warning exactly when the
\* URL it resolved or the raw URL of the primary result looks like a book,
\* writes it only on a verbose Status, and returns the URL it resolved
\* whether or not the warning is raised.
C13_BookSignalAdvisory ==
    [][pc = "book" =>
          /\ book_warned' <=> (LooksLikeBook(pdf_url) \/ LooksLikeBook(art.url))
          /\ url' = pdf_url
          /\ status' = IF book_warned' /\ status.verbose
                       THEN _writeln(status, Line("WARNING", "", <<"Might be a book">>, ""))
                       ELSE status
          /\ UNCHANGED <<throttle, dowait, has_queried>>]_vars

C13_Witness ==
    /\ pc = "pdf_url_ret"
    /\ book_warned
    /\ url = GoodPdf
    /\ status.out[Len(status.out)].text = <<"Might be a book">>

\* C14: every provider query, primary or cluster, adds one to the count;
\* the identity is rotated in the sending step exactly when the new count
\* is a multiple of the threshold, the threshold is then redrawn from
\* 3..13 and is otherwise kept by the step, and it is always within 3..15.
C14_CountAndRotate ==
    /\ [](queries_change \in 3..15)
    /\ [][/\ (pc \in {"pdf_url", "cluster"}) <=> (queries_sent' # queries_sent)
          /\ queries_sent' # queries_sent =>
                /\ queries_sent' = queries_sent + 1
                /\ IF queries_sent' % queries_change = 0
                   THEN /\ USER_AGENT' = USER_AGENT + 1
                        /\ queries_change' \in 3..13
                   ELSE UNCHANGED <<USER_AGENT, queries_change>>
                /\ last'[3] = USER_AGENT']_vars

C14_Witness ==
    /\ pc = "primary_returned"
    /\ queries_sent = 5
    /\ USER_AGENT = before[2] + 1
    /\ last[3] = USER_AGENT
    /\ queries_change = 3

\* Provider queries sent since single() called pdf_url().
SentInResolve == queries_sent - before[3]

\* C15: a call of pdf_url() sends one primary query and at most one
\* cluster query; the cluster query is sent only after a primary answer
\* with results whose document URL is null or blacklisted and which has a
\* cluster identifier; after a failed provider call the entry sends no
\* further query.
C15_NoRetry ==
    /\ [](/\ pc = "pdf_url" => SentInResolve = 0
          /\ pc \in {"primary_returned", "cluster"} => SentInResolve = 1
          /\ pc = "walk" => SentInResolve = 2
          /\ pc \in {"book", "pdf_url_ret"} => SentInResolve \in {1, 2}
          /\ pc = "pdf_url_ret" /\ outcome = "no_results" => SentInResolve = 1
          /\ pc = "cluster" =>
                /\ Len(articles) > 0 /\ art = articles[1]
                /\ pdf_url = None \/ is_blacklisted(pdf_url)
                /\ pdf_url = strip_url(art.url_pdf)
                /\ art.cluster_id # None
          /\ last[1] = "error" => pc \in {"returned", "sample", "some", "done"})
    /\ [][queries_sent' # queries_sent =>
              /\ pc \in {"pdf_url", "cluster"}
              /\ last[1] # "error"
              /\ pc' \in {"returned", "primary_returned", "walk"}
              /\ pc' = "returned" <=> last'[1] = "error"]_vars

C15_Witness ==
    /\ pc = "pdf_url_ret"
    /\ SentInResolve = 2
    /\ last[1] = "found"
    /\ url = OtherPdf

\* The messages of the destination checks of single().
LocalMessages ==
    {<<"Cannot write to directory">>, <<"File exists already, not overwriting">>,
     <<"Cannot overwrite file.">>}

LocalFailure ==
    \E i \in 1..Len(status.out) :
        status.out[i].kind = "ERROR" /\ status.out[i].text \in LocalMessages

\* C16: a single() that fails a check of its destination sends no provider
\* query, attempts no download, leaves the mean delay, the query count,
\* the threshold and the identity as they were, and returns False, so
\* that some() goes on to the next key without a delay.
C16_LocalFailureFrame ==
    /\ [](LocalFailure =>
            /\ outcome = "local_error"
            /\ pc \in {"returned", "some", "done"}
            /\ ~called /\ ~dowait /\ ~has_queried /\ ~slept
            /\ url = None)
    /\ [][LocalFailure' =>
            /\ UNCHANGED <<throttle, empties>>
            /\ pc \in {"single_try", "returned", "some"}
            /\ pc = "returned" => pc' = "some" /\ idx' = idx + 1]_vars

C16_Witness ==
    /\ pc = "returned"
    /\ LocalFailure
    /\ overwrite
    /\ status.out[2].text = <<"Cannot overwrite file.">>
    /\ queries_sent = 2
    /\ timeout = TIMEOUT

\* C17: the mean delay is TIMEOUT * 2^k, k the number of empty primary
\* answers since the last one with results; only pdf_url()'s handling of a
\* primary answer changes it, doubling it on an empty answer and resetting
\* it on results; provider errors, download errors and local failures
\* leave it as it is.
C17_BackoffPowerOfTwo ==
    /\ [](pc # "primary_returned" => timeout = TIMEOUT * Pow2(empties))
    /\ [][/\ timeout' # timeout =>
                /\ pc = "primary_returned"
                /\ timeout' = IF Len(articles) = 0 THEN 2 * timeout ELSE TIMEOUT
          /\ pc = "primary_returned" =>
                timeout' = IF Len(articles) = 0 THEN 2 * timeout ELSE TIMEOUT
          /\ outcome' \in {"provider_error", "download_error", "local_error"} =>
                UNCHANGED <<timeout, empties>>]_vars

C17_Witness ==
    /\ pc = "returned"
    /\ outcome = "provider_error"
    /\ empties = 2
    /\ timeout = 4 * TIMEOUT

\* C18 as stated: every rotation of the identity, the one forced by
\* on_blocked() included, leaves a threshold freshly drawn from 3..13.
C18_RedrawnAfterEveryRotation ==
    [][USER_AGENT' # USER_AGENT => queries_change' \in 3..13]_vars

\* C18: the threshold is redrawn only by send_query, in the step in which
\* it rotates the identity; the rotation forced by on_blocked() after an
\* empty primary answer leaves the threshold and the count as they are.
C18_RedrawnByProactiveRotationOnly ==
    /\ [][queries_change' # queries_change =>
              /\ pc \in {"pdf_url", "cluster"}
              /\ queries_sent' = queries_sent + 1
              /\ USER_AGENT' = USER_AGENT + 1]_vars
    /\ [][pc = "primary_returned" /\ Len(articles) = 0 =>
              /\ USER_AGENT' = USER_AGENT + 1
              /\ UNCHANGED <<queries_change, queries_sent>>]_vars

C18_Witness ==
    /\ pc = "pdf_url_ret"
    /\ outcome = "no_results"
    /\ USER_AGENT = before[2] + 1
    /\ queries_change = 15

\* C19: some() sleeps only for a sampled delay above MIN_TIMEOUT; a delay
\* at or below it is replaced by a new sample and not slept, whatever the
\* mean delay.
C19_SleepAboveFloor ==
    [][pc = "sample" =>
          IF delay > MIN_TIMEOUT
          THEN slept' /\ pc' = "some"
          ELSE /\ pc' = "sample"
               /\ delay' \in Samples(timeout)
               /\ UNCHANGED <<slept, idx, sinceCall>>]_vars

C19_Witness ==
    /\ pc = "sample"
    /\ delay = MIN_TIMEOUT
    /\ timeout = 2 * TIMEOUT
    /\ ~slept

HookReported ==
    \E i \in 1..Len(status.out) :
        status.out[i].kind = "ERROR" /\ status.out[i].text = <<"hook output">>

\* C20: the hook runs once for an empty primary answer when blocked_cmd is
\* configured and at no other time, and it runs after the mean delay was
\* doubled and the identity rotated; a non-zero exit status is reported as
\* an error and changes neither the doubled delay and the new identity,
\* nor the None that pdf_url() returns, nor the rest of the batch.
C20_HookOncePerBlock ==
    /\ [](/\ hook[1] = IF blocked_cmd /\ outcome = "no_results" /\ pc # "single_try"
                       THEN 1 ELSE 0
          /\ HookReported <=> (hook[1] = 1 /\ hook[2] # 0)
          /\ pc = "pdf_url_ret" /\ outcome = "no_results" =>
                /\ url = None
                /\ timeout = 2 * last[2]
                /\ USER_AGENT = last[3] + 1
                /\ blocked_cmd => hook[3] = timeout /\ hook[4] = USER_AGENT
          /\ pc = "returned" /\ outcome = "no_results" => dowait /\ has_queried)
    /\ [][outcome' = "no_results" /\ pc \in {"primary_returned", "pdf_url_ret"} =>
              /\ pc' = IF pc = "primary_returned" THEN "pdf_url_ret" ELSE "returned"
              /\ idx' = idx
              /\ pc = "pdf_url_ret" => UNCHANGED <<throttle, hook>>]_vars

C20_Witness ==
    /\ pc = "returned"
    /\ outcome = "no_results"
    /\ hook = <<1, 1, 2 * TIMEOUT, USER_AGENT>>
    /\ HookReported
    /\ dowait
    /\ idx < keys

DiffersFromFormerResult ==
    /\ Len(status.out) = Len(probe.pre.out) + 1
    /\ status.out[Len(status.out)].warn = "differs from former result"

\* C21: on a verbose Status, the first result for a field without a query
\* value is stored and written without a warning; a later result for the
\* field leaves the stored value as it is and writes the 'differs from
\* former result' warning exactly when its letters and digits, trimmed and
\* case-folded, differ from those of the stored value.
C21_ComparedWithFirstResult ==
    (/\ probe.op = "result"
     /\ probe.pre.verbose
     /\ probe.key \notin DOMAIN probe.pre.msg_query) =>
        IF probe.key \notin DOMAIN probe.pre.msg_result
        THEN /\ status.msg_result = Put(probe.pre.msg_result, probe.key, probe.text)
             /\ status.out = Append(probe.pre.out,
                                     Line("RESULT", probe.key, probe.text, ""))
        ELSE /\ status.msg_result = probe.pre.msg_result
             /\ DiffersFromFormerResult <=>
                    LettersAndDigits(probe.pre.msg_result[probe.key])
                        # LettersAndDigits(probe.text)

\* C22: in a run of send_query calls, no 15 consecutive calls pass without
\* a rotation of the identity: the first rotation comes with the 15th call
\* at the latest, and fewer than 15 calls lie between one rotation and the
\* next, the count never being reset.
C22_RotationWithinFifteen ==
    /\ [](probe.op = "send" => probe.gap < 15 /\ probe.gap <= queries_sent)
    /\ [][probe.op = "send" =>
              /\ queries_sent' = queries_sent + 1
              /\ probe'.gap = 0 <=> USER_AGENT' = USER_AGENT + 1]_vars

C22_Witness ==
    /\ pc = "querier"
    /\ queries_sent = 26
    /\ USER_AGENT = 2
    /\ probe.gap = 0
    /\ queries_change = 13

MightBeABookWritten ==
    \E i \in 1..Len(status.out) :
        status.out[i].kind = "WARNING" /\ status.out[i].text = <<"Might be a book">>

\* C23: when pdf_url() returns None after a primary answer with results,
\* it has raised the 'Might be a book' warning for the entry (written on a
\* verbose Status); when it returns after an empty primary answer, it has
\* not.
C23_NullUrlWarnsBook ==
    pc = "pdf_url_ret" =>
        IF outcome = "no_results"
        THEN url = None /\ ~book_warned /\ ~MightBeABookWritten
        ELSE /\ url = None => book_warned
             /\ status.verbose => (book_warned <=> MightBeABookWritten)
             /\ ~status.verbose => ~MightBeABookWritten

C23_Witness ==
    /\ pc = "pdf_url_ret"
    /\ outcome = "running"
    /\ url = None
    /\ SentInResolve = 2
    /\ examined = MaxCluster
    /\ book_warned
    /\ MightBeABookWritten

====
